---- MODULE Spec2Model ----
(***************************************************************************)
(* A model of the PDB scanner of ddr (PdbScanner.cpp): the construction of *)
(* the type graph (Symbol_IR) from the class, enum and typedef symbols of  *)
(* a batch of PDB files.                                                   *)
(*                                                                         *)
(* A string that may hold the separator "::" is modelled as the sequence   *)
(* of its segments: "N::Foo" is <<"N", "Foo">>, "Foo" is <<"Foo">> and the *)
(* empty string is <<>>.  A Type object is a record of the sequence        *)
(* `nodes`; a Type* is its index, NULL is 0.  A Type** (the slot a         *)
(* postponed reference will write) is a record naming the object and the   *)
(* member the pointer points into.                                         *)
(***************************************************************************)
EXTENDS Integers, Sequences, FiniteSets, TLC

VARIABLES
    pc,          \* position in startScan
    rc,          \* startScan's rc
    nodes,       \* every Type object allocated so far (the heap)
    typeMap,     \* _typeMap: full name -> Type*
    types,       \* _ir->_types: the root list
    postponed,   \* _postponedFields
    handles,     \* the DIA handles held (non-NULL diaDataSource, ..., and the
                 \* class factories obtained and not released)
    fileNo,      \* number of files the loop has started on
    nDecls,      \* number of top-level symbols enumerated so far (bounded)
    pdbs,        \* which symbols the PDB files of debugFiles hold (see Catalog)
    hist         \* history of the scan (observations only, read by no action)

vars == <<pc, rc, nodes, typeMap, types, postponed, handles, fileNo,
          nDecls, pdbs, hist>>

\* ------------------------------------------------------------------ bounds
MaxFiles == 2
MaxDecls == 3

\* --------------------------------------------------------------- constants
NULL == 0
DDR_RC_OK == "DDR_RC_OK"
DDR_RC_ERROR == "DDR_RC_ERROR"
UnnamedTag == "<unnamed-tag>"
UnnamedTypeNames == {"<unnamed-type-u>"}
btInt == 6
btUInt == 7
btFloat == 8

baseTypeArray ==
    << "<NoType>", "void", "I8", "wchar_t", "I8", "U8", "I32", "U32", "float",
       "<BCD>", "bool", "short", "unsigned short", "I32", "U32", "I8", "I16",
       "I32", "I64", "__int128", "U8", "U16", "U32", "U64", "U128",
       "unsigned __int128", "<currency>", "<date>", "VARIANT", "<complex>",
       "<bit>", "BSTR", "HRESULT", "double" >>

errorNoType == "ERROR_PDBSCANNER_MISSING_THIS_TYPE"

\* The values of get_baseType that index baseTypeArray.
BaseTypeCodes == 0..(Len(baseTypeArray) - 1)

\* ------------------------------------------------------------------ strings
\* The segments of the string a name stands for ("" has one empty segment).
Segs(s) == IF s = <<>> THEN <<"">> ELSE s
\* a + "::" + b
Join(a, b) == Segs(a) \o Segs(b)
\* The string made of one segment.
SegName(seg) == IF seg = "" THEN <<>> ELSE <<seg>>
\* string::npos != name.find("::")
HasSeparator(name) == Len(name) > 1

\* ------------------------------------------------------------ Type objects
NoModifiers == [ pointerCount |-> 0, referenceCount |-> 0, arrayDims |-> 0 ]

NewType(kind, name, owner, size) ==
    [ kind |-> kind, name |-> name, owner |-> owner, sizeOf |-> size,
      subUDTs |-> <<>>, fieldMembers |-> <<>>, superClass |-> NULL,
      enumMembers |-> <<>>, aliasedType |-> NULL, modifiers |-> NoModifiers,
      freed |-> FALSE ]

\* new Type(size): a base type has a name and a size and nothing else.
NewBaseType(name, size) == [ kind |-> "Base", name |-> name, sizeOf |-> size ]

\* Type::getFullName / UDT::getFullName: the name qualified by the owners' names.
RECURSIVE GetFullName(_, _)
GetFullName(ns, id) ==
    IF ns[id].kind = "Base" \/ ns[id].owner = NULL
    THEN ns[id].name
    ELSE Join(GetFullName(ns, ns[id].owner), ns[id].name)

\* Type::getBaseType: the aliased type of a typedef, NULL for every other type.
GetBaseType(ns, id) ==
    IF ns[id].kind = "Typedef" THEN ns[id].aliasedType ELSE NULL

\* Type::getNamespace: the owner of a UDT, NULL for a base type.
GetNamespace(ns, id) == IF ns[id].kind = "Base" THEN NULL ELSE ns[id].owner

\* The object was deleted: a base type never is.
IsFreed(ns, id) == ns[id].kind # "Base" /\ ns[id].freed

\* Type::getSubUDTS: the child list of a namespace or class, NULL otherwise.
HasSubUDTS(ns, id) == ns[id].kind = "Class"

\* The blacklist loadBlacklist read, and checkBlacklistedType.
Blacklist == { <<"Hidden">> }
CheckBlacklistedType(name) == name \in Blacklist

\* ------------------------------------------------------------- the registry
\* The scanner's mutable state threaded through one call:
\*   h.nodes, h.typeMap, h.types, h.postponed as the variables of those names,
\*   h.g the observations of the call (see hist).
EmptyMap == [ n \in {} |-> NULL ]

\* addType without the test for a name already in the map.
AddType_Overwrites(h, id, addToIR) ==
    LET fullName == GetFullName(h.nodes, id) IN
    IF fullName # <<>>
    THEN [ h EXCEPT !.types = IF addToIR THEN Append(@, id) ELSE @,
                    !.typeMap = [ n \in DOMAIN @ \cup {fullName} |->
                                    IF n = fullName THEN id ELSE @[n] ] ]
    ELSE h

AddType(h, id, addToIR) ==
    LET fullName == GetFullName(h.nodes, id) IN
    IF fullName # <<>> /\ fullName \notin DOMAIN h.typeMap
    THEN [ h EXCEPT !.types = IF addToIR THEN Append(@, id) ELSE @,
                    !.typeMap = @ @@ (fullName :> id) ]
    ELSE h

GetType(h, s) ==
    IF s # <<>> /\ s \in DOMAIN h.typeMap THEN h.typeMap[s] ELSE NULL

\* v.erase(remove(v.begin(), v.end(), x)): remove compacts the elements other
\* than x to the front and leaves the tail as it was; erase drops the one
\* element at the position remove returned.
EraseRemove(v, x) ==
    LET kept == SelectSeq(v, LAMBDA e : e # x) IN
    IF Len(kept) = Len(v) THEN v   \* erase(end()) is not reached: guarded by find
    ELSE kept \o SubSeq(v, Len(kept) + 2, Len(v))

\* new T: the object gets the next address.
Allocate(h, node) == [ h EXCEPT !.nodes = Append(@, node) ]

\* if (NULL != outer) { outer->_subUDTs.push_back(t); }
PushChild(h, outer, t) ==
    IF outer = NULL THEN h
    ELSE [ h EXCEPT !.nodes[outer].subUDTs = Append(@, t) ]

\* if ((NULL == t->_outerNamespace) && (NULL != outer)) { t->_outerNamespace =
\* outer; outer->_subUDTs.push_back(t); }
Adopt(h, t, outer) ==
    IF h.nodes[t].owner = NULL /\ outer # NULL
    THEN [ h EXCEPT !.nodes[t].owner = outer,
                    !.nodes[outer].subUDTs = Append(@, t) ]
    ELSE h

\* The cast (ClassUDT *) or (EnumUDT *) of a registered type: undefined when
\* the object is of another class.
CastTo(h, t, kind) == [ h EXCEPT !.g.ub = @ \/ h.nodes[t].kind # kind ]

RECURSIVE NamespaceLoop(_, _, _, _)

\* The end of one iteration, ns being the namespace of the segment: the relink
\* of an ownerless ns under outerNamespace, then the next segment.
NamespaceRelink(h, name, k, outerNamespace, ns) ==
    NamespaceLoop(
      IF outerNamespace # NULL /\ h.nodes[ns].owner = NULL
      THEN [ h EXCEPT !.nodes[ns].owner = outerNamespace,
                      !.nodes[outerNamespace].subUDTs = Append(@, ns),
                      !.types = EraseRemove(@, ns) ]
      ELSE h,
      name, k + 1, ns)

\* One iteration once getType(namespaceName) has returned found: a new
\* ClassUDT with _outerNamespace set, handed to addType, when it is NULL.
NamespaceFound(h, name, k, outerNamespace, found) ==
    IF found = NULL
    THEN NamespaceRelink(
           AddType(Allocate(h, NewType("Class", SegName(name[k]), outerNamespace, 0)),
                   Len(h.nodes) + 1, k = 1),
           name, k, outerNamespace, Len(h.nodes) + 1)
    ELSE NamespaceRelink(h, name, k, outerNamespace, found)

\* One iteration of getNamespaceFromName's loop for the segment name[k], and on.
NamespaceLoop(h, name, k, outerNamespace) ==
    IF k >= Len(name)
    THEN [ h |-> h,
           name |-> IF name = <<>> THEN <<>> ELSE SegName(name[Len(name)]),
           outer |-> outerNamespace ]
    ELSE NamespaceFound(h, name, k, outerNamespace, GetType(h, SegName(name[k])))

GetNamespaceFromName(h, name, outerUDT) ==
    IF outerUDT = NULL
    THEN NamespaceLoop(h, name, 1, NULL)
    ELSE [ h |-> h, name |-> name, outer |-> outerUDT ]

\* ------------------------------------------------------------ the symbols
\* An IDiaSymbol as the scanner reads it: its symTag, its name (after getName),
\* its length, the symbol of its type, its children in findChildren's order,
\* and the accessor that fails on it ("none" when all succeed).
\*   tag:  "UDT", "Enum", "Data", "BaseClass", "Typedef", "Function",
\*         "Other" (a tag addSymbol does not handle), "TagFail" (get_symTag fails)
\*   fail: "none", "name" (get_name), "size" (get_length),
\*         "children" (findChildren), "loc" (an unknown location type)
\* The type of a Data or Typedef symbol: the chain of SymTagArrayType and
\* SymTagPointerType symbols in front (wrap) and the symbol at its end:
\*   k: "udt", "enum", "base", "func", "other"; n its name; code and len a base
\*   type's get_baseType and get_length; sub the children of an unnamed UDT.
NoTyp == [ wrap |-> <<>>, k |-> "none", n |-> <<>>, code |-> 0, len |-> 0, sub |-> <<>> ]
TypUDT(name) == [ NoTyp EXCEPT !.k = "udt", !.n = name ]
TypBase(code, len) == [ NoTyp EXCEPT !.k = "base", !.code = code, !.len = len ]
TypAnon(children) == [ NoTyp EXCEPT !.k = "udt", !.n = <<UnnamedTag>>, !.sub = children ]
TypPtr(t) == [ t EXCEPT !.wrap = <<"ptr">> \o @ ]

Sym(tag, name, size, typ, children, fail) ==
    [ tag |-> tag, name |-> name, size |-> size, typ |-> typ,
      children |-> children, fail |-> fail ]
Class(name, size, children) == Sym("UDT", name, size, NoTyp, children, "none")
Enum(name, children) == Sym("Enum", name, 4, NoTyp, children, "none")
Data(name, typ) == Sym("Data", <<name>>, 0, typ, <<>>, "none")
BaseClass(name) == Sym("BaseClass", name, 0, NoTyp, <<>>, "none")
Typedef(name, typ) == Sym("Typedef", name, 0, typ, <<>>, "none")
TagFail == Sym("TagFail", <<>>, 0, NoTyp, <<>>, "none")

\* ------------------------------------------------------------- base types
SetBaseTypeInt(h, ulLen) ==
    CASE ulLen = 1 -> [ rc |-> DDR_RC_OK, type |-> GetType(h, <<"I8">>) ]
      [] ulLen = 2 -> [ rc |-> DDR_RC_OK, type |-> GetType(h, <<"I16">>) ]
      [] ulLen = 4 -> [ rc |-> DDR_RC_OK, type |-> GetType(h, <<"I32">>) ]
      [] ulLen = 8 -> [ rc |-> DDR_RC_OK, type |-> GetType(h, <<"I64">>) ]
      [] OTHER -> [ rc |-> DDR_RC_ERROR, type |-> NULL ]

SetBaseTypeFloat(h, ulLen) ==
    CASE ulLen = 4 -> [ rc |-> DDR_RC_OK, type |-> GetType(h, <<"float">>) ]
      [] ulLen = 8 -> [ rc |-> DDR_RC_OK, type |-> GetType(h, <<"double">>) ]
      [] OTHER -> [ rc |-> DDR_RC_ERROR, type |-> NULL ]

\* setBaseTypeUInt without the case for a length of 16.
SetBaseTypeUInt_No128(h, ulLen) ==
    CASE ulLen = 1 -> [ rc |-> DDR_RC_OK, type |-> GetType(h, <<"U8">>) ]
      [] ulLen = 2 -> [ rc |-> DDR_RC_OK, type |-> GetType(h, <<"U16">>) ]
      [] ulLen = 4 -> [ rc |-> DDR_RC_OK, type |-> GetType(h, <<"U32">>) ]
      [] ulLen = 8 -> [ rc |-> DDR_RC_OK, type |-> GetType(h, <<"U64">>) ]
      [] OTHER -> [ rc |-> DDR_RC_ERROR, type |-> NULL ]

SetBaseTypeUInt(h, ulLen) ==
    CASE ulLen = 1 -> [ rc |-> DDR_RC_OK, type |-> GetType(h, <<"U8">>) ]
      [] ulLen = 2 -> [ rc |-> DDR_RC_OK, type |-> GetType(h, <<"U16">>) ]
      [] ulLen = 4 -> [ rc |-> DDR_RC_OK, type |-> GetType(h, <<"U32">>) ]
      [] ulLen = 8 -> [ rc |-> DDR_RC_OK, type |-> GetType(h, <<"U64">>) ]
      [] ulLen = 16 -> [ rc |-> DDR_RC_OK, type |-> GetType(h, <<"U128">>) ]
      [] OTHER -> [ rc |-> DDR_RC_ERROR, type |-> NULL ]

SetBaseType(h, baseType, ulLen) ==
    CASE baseType = btUInt -> SetBaseTypeUInt(h, ulLen)
      [] baseType = btInt -> SetBaseTypeInt(h, ulLen)
      [] baseType = btFloat -> SetBaseTypeFloat(h, ulLen)
      [] OTHER -> [ rc |-> DDR_RC_OK,
                    type |-> GetType(h, SegName(baseTypeArray[baseType + 1])) ]

\* ----------------------------------------------------- slots and postponing
\* The Type* a slot points at, and the write "*slot = t".
Slot(node, member, idx) == [ node |-> node, member |-> member, idx |-> idx ]

ReadSlot(ns, s) ==
    CASE s.member = "field" -> ns[s.node].fieldMembers[s.idx].fieldType
      [] s.member = "super" -> ns[s.node].superClass
      [] OTHER -> ns[s.node].aliasedType

WriteSlot(ns, s, t) ==
    CASE s.member = "field" -> [ ns EXCEPT ![s.node].fieldMembers[s.idx].fieldType = t ]
      [] s.member = "super" -> [ ns EXCEPT ![s.node].superClass = t ]
      [] OTHER -> [ ns EXCEPT ![s.node].aliasedType = t ]

IsPostponedSlot(h, s) == \E i \in 1..Len(h.postponed) : h.postponed[i].type = s

Postpone(h, s, name) ==
    [ h EXCEPT !.postponed = Append(@, [ type |-> s, name |-> name ]) ]

\* -------------------------------------------------------------- builders
RECURSIVE CreateClassUDT(_, _, _)
RECURSIVE AddChildrenSymbols(_, _, _, _)
RECURSIVE FirstPass(_, _, _, _, _)
RECURSIVE SecondPass(_, _, _, _)
RECURSIVE AddSymbol(_, _, _)

\* v.back()
Back(v) == v[Len(v)]

\* setTypeUDT's branch for an unnamed tag once createClassUDT has returned r:
\* *type = outerUDT->_subUDTs.back(), and its name is cleared.
BindAnonymous(r, outerUDT) ==
    IF r.rc = DDR_RC_OK
    THEN [ h |-> [ r.h EXCEPT !.nodes[Back(r.h.nodes[outerUDT].subUDTs)].name = <<>> ],
           rc |-> DDR_RC_OK,
           type |-> Back(r.h.nodes[outerUDT].subUDTs) ]
    ELSE [ h |-> r.h, rc |-> r.rc, type |-> NULL ]

\* setTypeUDT without the push_back on _postponedFields: a name the registry
\* does not know is dropped.
SetTypeUDT_NoPostpone(h, typ, slot, outerUDT) ==
    IF typ.n # <<>> /\ typ.n \in DOMAIN h.typeMap
    THEN [ h |-> h, rc |-> DDR_RC_OK, type |-> h.typeMap[typ.n] ]
    ELSE IF typ.n = <<UnnamedTag>> /\ outerUDT # NULL
    THEN BindAnonymous(CreateClassUDT(h, Class(typ.n, typ.len, typ.sub), outerUDT),
                       outerUDT)
    ELSE [ h |-> h, rc |-> DDR_RC_OK, type |-> NULL ]

\* setTypeUDT: the result is the value left in *type (NULL when not written).
SetTypeUDT(h, typ, slot, outerUDT) ==
    IF typ.n # <<>> /\ typ.n \in DOMAIN h.typeMap
    THEN [ h |-> h, rc |-> DDR_RC_OK, type |-> h.typeMap[typ.n] ]
    ELSE IF typ.n = <<UnnamedTag>> /\ outerUDT # NULL
    THEN BindAnonymous(CreateClassUDT(h, Class(typ.n, typ.len, typ.sub), outerUDT),
                       outerUDT)
    ELSE IF typ.n # <<>>
    THEN [ h |-> Postpone(h, slot, typ.n), rc |-> DDR_RC_OK, type |-> NULL ]
    ELSE [ h |-> h, rc |-> DDR_RC_OK, type |-> NULL ]

CountOf(wrap, w) == Len(SelectSeq(wrap, LAMBDA x : x = w))

\* What setType leaves: the scanner's state, rc, *type and *modifiers.
WithModifiers(leaf, mods) ==
    [ h |-> leaf.h, rc |-> leaf.rc, type |-> leaf.type, mods |-> mods ]

\* setBaseType changes no state of the scanner.
BaseLeaf(h, b) == [ h |-> h, rc |-> b.rc, type |-> b.type ]

\* setType: the array and pointer symbols in front only add modifiers.
SetType(h, typ, slot, outerUDT) ==
    WithModifiers(
      CASE typ.k \in {"udt", "enum"} -> SetTypeUDT(h, typ, slot, outerUDT)
        [] typ.k = "base" -> BaseLeaf(h, SetBaseType(h, typ.code, typ.len))
        [] typ.k = "func" ->
             [ h |-> h, rc |-> DDR_RC_OK, type |-> GetType(h, <<"void">>) ]
        [] OTHER -> [ h |-> h, rc |-> DDR_RC_ERROR, type |-> NULL ],
      [ pointerCount |-> CountOf(typ.wrap, "ptr"),
        referenceCount |-> CountOf(typ.wrap, "ref"),
        arrayDims |-> CountOf(typ.wrap, "array") ])

\* addFieldMember once setType has returned r: the new Field is pushed on
\* _fieldMembers only when rc is DDR_RC_OK.  typeName is the name setTypeUDT
\* read (an observation).
PushField(r, symbol, udt) ==
    IF r.rc = DDR_RC_OK
    THEN [ h |-> [ r.h EXCEPT !.nodes[udt].fieldMembers =
                     Append(@, [ name |-> symbol.name, fieldType |-> r.type,
                                 modifiers |-> r.mods, typeName |-> symbol.typ.n ]) ],
           rc |-> DDR_RC_OK ]
    ELSE [ h |-> r.h, rc |-> r.rc ]

AddFieldMember(h, symbol, udt) ==
    IF symbol.fail \in {"name", "loc"}
    THEN [ h |-> h, rc |-> DDR_RC_ERROR ]
    ELSE PushField(SetType(h, symbol.typ,
                           Slot(udt, "field", Len(h.nodes[udt].fieldMembers) + 1), udt),
                   symbol, udt)

\* setSuperClassName returning the rc of getName.
SetSuperClassName_ReturnsRc(h, symbol, newUDT) ==
    LET name == symbol.name
        slot == Slot(newUDT, "super", 0)
    IN IF symbol.fail = "name" THEN [ h |-> h, rc |-> DDR_RC_ERROR ]
       ELSE IF name = <<>> THEN [ h |-> h, rc |-> DDR_RC_OK ]
       ELSE IF name \notin DOMAIN h.typeMap
       THEN [ h |-> Postpone(h, slot, name), rc |-> DDR_RC_OK ]
       ELSE [ h |-> [ h EXCEPT !.nodes[newUDT].superClass = h.typeMap[name],
                               !.g.earlyWrite = @ \/ IsPostponedSlot(h, slot) ],
              rc |-> DDR_RC_OK ]

\* setSuperClassName returns DDR_RC_OK whatever getName returned.
SetSuperClassName(h, symbol, newUDT) ==
    LET name == symbol.name
        slot == Slot(newUDT, "super", 0)
    IN IF symbol.fail = "name" \/ name = <<>>
       THEN [ h |-> h, rc |-> DDR_RC_OK ]
       ELSE IF name \notin DOMAIN h.typeMap
       THEN [ h |-> Postpone(h, slot, name), rc |-> DDR_RC_OK ]
       ELSE [ h |-> [ h EXCEPT !.nodes[newUDT].superClass = h.typeMap[name],
                               !.g.earlyWrite = @ \/ IsPostponedSlot(h, slot) ],
              rc |-> DDR_RC_OK ]

\* addEnumMembers: one EnumMember per child until a child's name cannot be read.
RECURSIVE EnumMemberLoop(_, _, _, _)
EnumMemberLoop(h, children, i, enumUDT) ==
    IF i > Len(children) THEN [ h |-> h, rc |-> DDR_RC_OK ]
    ELSE IF children[i].fail = "name" THEN [ h |-> h, rc |-> DDR_RC_ERROR ]
    ELSE EnumMemberLoop(
           [ h EXCEPT !.nodes[enumUDT].enumMembers = Append(@, children[i].name) ],
           children, i + 1, enumUDT)

AddEnumMembers(h, symbol, enumUDT) ==
    IF symbol.fail = "children"
    THEN [ h |-> h, rc |-> DDR_RC_ERROR ]
    ELSE EnumMemberLoop(h, symbol.children, 1, enumUDT)

\* fullName: name, or outer->_name + "::" + name.
OuterName(h, name, outer) ==
    IF outer = NULL THEN name ELSE Join(h.nodes[outer].name, name)

\* createEnumUDT, new enum, once addEnumMembers has returned m: linked and
\* registered, or deleted (nothing refers to it yet).
FinishEnum(m, enumUDT, outerNamespace) ==
    IF m.rc = DDR_RC_OK
    THEN [ h |-> AddType(PushChild([ m.h EXCEPT !.nodes[enumUDT].owner = outerNamespace ],
                                   outerNamespace, enumUDT),
                         enumUDT, outerNamespace = NULL),
           rc |-> DDR_RC_OK ]
    ELSE [ h |-> [ m.h EXCEPT !.nodes[enumUDT].freed = TRUE ], rc |-> m.rc ]

\* createEnumUDT, new enum, once getNamespaceFromName has left r.
NewEnum(r, symbol) ==
    FinishEnum(AddEnumMembers(Allocate(r.h, NewType("Enum", r.name, NULL, 0)), symbol,
                              Len(r.h.nodes) + 1),
               Len(r.h.nodes) + 1, r.outer)

\* The merge branch of createEnumUDT without the test of _enumMembers.empty().
MergeEnumMembers_Always(h, symbol, enumUDT) == AddEnumMembers(h, symbol, enumUDT)

\* createEnumUDT, enum already registered: members are added to an empty list.
MergeEnumMembers(h, symbol, enumUDT) ==
    IF h.nodes[enumUDT].enumMembers = <<>>
    THEN AddEnumMembers(h, symbol, enumUDT)
    ELSE [ h |-> h, rc |-> DDR_RC_OK ]

MergeEnum(h, symbol, enumUDT, outerNamespace) ==
    MergeEnumMembers(Adopt(CastTo(h, enumUDT, "Enum"), enumUDT, outerNamespace),
                     symbol, enumUDT)

CreateEnumUDT(h, symbol, outerNamespace) ==
    IF symbol.fail = "name" THEN [ h |-> h, rc |-> DDR_RC_ERROR ]
    ELSE IF CheckBlacklistedType(symbol.name) THEN [ h |-> h, rc |-> DDR_RC_OK ]
    ELSE IF symbol.fail = "size" THEN [ h |-> h, rc |-> DDR_RC_ERROR ]
    ELSE IF \/ OuterName(h, symbol.name, outerNamespace) = <<>>
            \/ OuterName(h, symbol.name, outerNamespace) \notin DOMAIN h.typeMap
            \/ symbol.name = <<UnnamedTag>>
    THEN NewEnum(GetNamespaceFromName(h, symbol.name, outerNamespace), symbol)
    ELSE MergeEnum(h, symbol, GetType(h, OuterName(h, symbol.name, outerNamespace)),
                   outerNamespace)

\* newTypedef->_sizeOf = newTypedef->_aliasedType->_sizeOf
CopySize(h, newTypedef, aliasedType) ==
    IF aliasedType = NULL
    THEN [ h EXCEPT !.nodes[newTypedef].sizeOf = h.g.garbage, !.g.ub = TRUE ]
    ELSE [ h EXCEPT !.nodes[newTypedef].sizeOf = h.nodes[aliasedType].sizeOf ]

\* createTypedef once setType has returned r: the size is copied and the
\* typedef registered, or the typedef is deleted.
FinishTypedef(r, newTypedef, outerNamespace) ==
    IF r.rc = DDR_RC_OK
    THEN [ h |-> AddType(CopySize([ r.h EXCEPT !.nodes[newTypedef].aliasedType = r.type,
                                               !.nodes[newTypedef].modifiers = r.mods ],
                                  newTypedef, r.type),
                         newTypedef, outerNamespace = NULL),
           rc |-> DDR_RC_OK ]
    ELSE [ h |-> [ r.h EXCEPT !.nodes[newTypedef].freed = TRUE ], rc |-> r.rc ]

\* createTypedef.  The loop that walks to the type at the end of the chain only
\* skips the array and pointer symbols.  newTypedef->_aliasedType->_sizeOf is
\* read whether or not setType bound _aliasedType: through a null pointer the
\* read is undefined (g.ub) and yields g.garbage when the scan goes on.
\* createTypedef without the blacklist test of the name behind the typedef.
CreateTypedef_NoTargetCheck(h, symbol, outerNamespace) ==
    IF symbol.fail = "name" THEN [ h |-> h, rc |-> DDR_RC_ERROR ]
    ELSE IF CheckBlacklistedType(symbol.name) THEN [ h |-> h, rc |-> DDR_RC_OK ]
    ELSE FinishTypedef(
           SetType(PushChild(Allocate(h, NewType("Typedef", symbol.name,
                                                 outerNamespace, 0)),
                             outerNamespace, Len(h.nodes) + 1),
                   symbol.typ, Slot(Len(h.nodes) + 1, "alias", 0), NULL),
           Len(h.nodes) + 1, outerNamespace)

CreateTypedef(h, symbol, outerNamespace) ==
    IF symbol.fail = "name" THEN [ h |-> h, rc |-> DDR_RC_ERROR ]
    ELSE IF CheckBlacklistedType(symbol.name) THEN [ h |-> h, rc |-> DDR_RC_OK ]
    ELSE IF CheckBlacklistedType(IF symbol.typ.k \in {"udt", "enum"}
                                 THEN symbol.typ.n ELSE <<>>)
    THEN [ h |-> h, rc |-> DDR_RC_OK ]
    ELSE FinishTypedef(
           SetType(PushChild(Allocate(h, NewType("Typedef", symbol.name,
                                                 outerNamespace, 0)),
                             outerNamespace, Len(h.nodes) + 1),
                   symbol.typ, Slot(Len(h.nodes) + 1, "alias", 0), NULL),
           Len(h.nodes) + 1, outerNamespace)

\* The class a registered name stands for: through the typedefs of it.
RECURSIVE UnderlyingType(_, _)
UnderlyingType(ns, id) ==
    IF GetBaseType(ns, id) # NULL THEN UnderlyingType(ns, GetBaseType(ns, id)) ELSE id

\* createClassUDT, new class, once addChildrenSymbols has returned c:
\* registered, or deleted while its owner's child list still holds it.
FinishClass(c, classUDT) ==
    IF c.rc = DDR_RC_OK
    THEN [ h |-> AddType(c.h, classUDT, c.h.nodes[classUDT].owner = NULL),
           rc |-> DDR_RC_OK ]
    ELSE [ h |-> [ c.h EXCEPT !.nodes[classUDT].freed = TRUE ], rc |-> c.rc ]

\* createClassUDT, new class, once getNamespaceFromName has left r: the
\* object is pushed on its owner's child list before its children are added.
NewClass(r, symbol) ==
    FinishClass(
      AddChildrenSymbols(PushChild(Allocate(r.h, NewType("Class", r.name, r.outer,
                                                         symbol.size)),
                                   r.outer, Len(r.h.nodes) + 1),
                         symbol.children, symbol.fail = "children", Len(r.h.nodes) + 1),
      Len(r.h.nodes) + 1)

\* createClassUDT, name already registered (as a class or a typedef of one).
MergeClass(h, symbol, classUDT, outerUDT) ==
    AddChildrenSymbols(Adopt(CastTo(h, classUDT, "Class"), classUDT, outerUDT),
                       symbol.children, symbol.fail = "children", classUDT)

CreateClassUDT(h, symbol, outerUDT) ==
    IF symbol.fail = "name" THEN [ h |-> h, rc |-> DDR_RC_ERROR ]
    ELSE IF CheckBlacklistedType(symbol.name) THEN [ h |-> h, rc |-> DDR_RC_OK ]
    ELSE IF symbol.fail = "size" THEN [ h |-> h, rc |-> DDR_RC_ERROR ]
    ELSE IF \/ OuterName(h, symbol.name, outerUDT) = <<>>
            \/ OuterName(h, symbol.name, outerUDT) \notin DOMAIN h.typeMap
            \/ symbol.name = <<UnnamedTag>>
    THEN NewClass(GetNamespaceFromName(h, symbol.name, outerUDT), symbol)
    ELSE MergeClass(h, symbol,
                    UnderlyingType(h.nodes,
                                   GetType(h, OuterName(h, symbol.name, outerUDT))),
                    outerUDT)

\* g.failed: a builder has returned an error.
NoteResult(r) ==
    [ h |-> [ r.h EXCEPT !.g.failed = @ \/ r.rc # DDR_RC_OK ], rc |-> r.rc ]

\* A call whose result is not assigned to rc.
Unassigned(r) == [ h |-> r.h, rc |-> DDR_RC_OK ]

\* A member of a NULL outerNamespace is written.
ThroughNull(h) == [ h |-> [ h EXCEPT !.g.ub = TRUE ], rc |-> DDR_RC_ERROR ]

\* addSymbol's switch on the symTag.
Dispatch(h, symbol, outerNamespace) ==
    CASE symbol.tag = "Enum" -> CreateEnumUDT(h, symbol, outerNamespace)
      [] symbol.tag = "UDT" -> CreateClassUDT(h, symbol, outerNamespace)
      [] symbol.tag = "Data" ->
           IF outerNamespace = NULL THEN ThroughNull(h)
           ELSE AddFieldMember(h, symbol, outerNamespace)
      [] symbol.tag = "BaseClass" ->
           IF outerNamespace = NULL THEN ThroughNull(h)
           ELSE SetSuperClassName(h, symbol, outerNamespace)
      [] symbol.tag \in {"VTableShape", "VTable", "Function"} ->
           [ h |-> h, rc |-> DDR_RC_OK ]
      [] symbol.tag = "Typedef" ->
           IF outerNamespace = NULL
           THEN Unassigned(NoteResult(CreateTypedef(h, symbol, outerNamespace)))
           ELSE [ h |-> h, rc |-> DDR_RC_OK ]
      [] OTHER -> [ h |-> h, rc |-> DDR_RC_ERROR ]

\* addSymbol.  g.failed: a builder has returned an error; g.late: a symbol was
\* dispatched after that.
AddSymbol(h, symbol, outerNamespace) ==
    NoteResult(Dispatch([ h EXCEPT !.g.late = @ \/ h.g.failed ], symbol, outerNamespace))

\* g.dispatch: addChildrenSymbols hands child to addSymbol with this owner
\* (an observation, cleared when the pass is over).
Dispatched(h, child, owner) ==
    [ h EXCEPT !.g.dispatch = Append(@, [ sym |-> child, owner |-> owner ]) ]

\* The first loop of addChildrenSymbols, from child i on.  st holds the loop's
\* locals: alreadyHadFields, alreadyCheckedFields, alreadyHadSubtypes and
\* innerTypeSymbols.  The rc of addSymbol is not assigned in this loop.
FirstPass(h, children, i, outerNamespace, st) ==
    IF i > Len(children) THEN [ h |-> h, rc |-> DDR_RC_OK, inner |-> st.inner ]
    ELSE
      LET child == children[i]
          udtName == IF child.tag \in {"Enum", "UDT"} THEN child.name ELSE <<>>
          isData == child.tag = "Data"
          check == ~st.checked /\ isData
          hadFields == IF check
                       THEN outerNamespace # NULL
                            /\ h.nodes[outerNamespace].fieldMembers # <<>>
                       ELSE st.hadFields
          st1 == [ st EXCEPT !.checked = @ \/ isData, !.hadFields = hadFields ]
          h0 == [ h EXCEPT !.g.ub = @ \/ (check /\ outerNamespace = NULL) ]
      IN
      IF child.tag = "TagFail" THEN [ h |-> h, rc |-> DDR_RC_ERROR, inner |-> st.inner ]
      ELSE IF child.tag \in {"Enum", "UDT"} /\ child.fail = "name"
      THEN [ h |-> h, rc |-> DDR_RC_ERROR, inner |-> st.inner ]
      ELSE IF outerNamespace = NULL \/ ~HasSeparator(udtName)
      THEN IF (isData /\ ~hadFields) \/ (~isData /\ ~st.hadSubtypes)
           THEN FirstPass(AddSymbol(Dispatched(h0, child, outerNamespace), child,
                                    outerNamespace).h,
                          children, i + 1, outerNamespace, st1)
           ELSE FirstPass(h0, children, i + 1, outerNamespace, st1)
      ELSE FirstPass(h, children, i + 1, outerNamespace,
                     [ st EXCEPT !.inner = Append(@, i) ])

\* The second loop once addSymbol has returned r for inner type j.
SecondPassNext(r, children, inner, j) ==
    IF r.rc = DDR_RC_OK THEN SecondPass(r.h, children, inner, j + 1) ELSE r

\* The second loop: the inner types, each with no outer namespace, until one fails.
SecondPass(h, children, inner, j) ==
    IF j > Len(inner) THEN [ h |-> h, rc |-> DDR_RC_OK ]
    ELSE SecondPassNext(AddSymbol(Dispatched(h, children[inner[j]], NULL),
                                  children[inner[j]], NULL),
                        children, inner, j)

\* addChildrenSymbols without its second loop.
InnerTypes_Skipped(p, children) == [ h |-> p.h, rc |-> p.rc ]

\* addChildrenSymbols once its first loop has returned p.
InnerTypes(p, children) ==
    IF p.rc = DDR_RC_OK THEN SecondPass(p.h, children, p.inner, 1)
    ELSE [ h |-> p.h, rc |-> p.rc ]

\* addChildrenSymbols on the children findChildren returned (findFails: the
\* enumeration itself failed).
AddChildrenSymbols(h, children, findFails, outerNamespace) ==
    IF findFails THEN [ h |-> h, rc |-> DDR_RC_ERROR ]
    ELSE InnerTypes(
           FirstPass(h, children, 1, outerNamespace,
                     [ hadFields |-> FALSE, checked |-> FALSE,
                       hadSubtypes |-> outerNamespace # NULL
                                       /\ h.nodes[outerNamespace].subUDTs # <<>>,
                       inner |-> <<>> ]),
           children)

\* ------------------------------------------------------ after the last file
\* updatePostponedFieldNames, entry i and on.  g.flushLog: the slots written,
\* in the order written; g.ub: a slot lay in a deleted object.
\* updatePostponedFieldNames with the placeholder of an unknown name handed to
\* addType as a root type.
RECURSIVE PostponedLoop_Registers(_, _)
PostponedLoop_Registers(h, i) ==
    IF i > Len(h.postponed) THEN h
    ELSE
      LET it == h.postponed[i]
          found == it.name \in DOMAIN h.typeMap
          placeholder == Len(h.nodes) + 1
          h1 == IF found THEN h
                ELSE AddType([ h EXCEPT !.nodes =
                                 Append(@, NewType("Class", it.name, NULL, 0)) ],
                             placeholder, TRUE)
          t == IF found THEN h.typeMap[it.name] ELSE placeholder
      IN PostponedLoop_Registers(
           [ h1 EXCEPT !.nodes = WriteSlot(h1.nodes, it.type, t),
                       !.g.flushLog = Append(@, it.type),
                       !.g.ub = @ \/ IsFreed(h.nodes, it.type.node) ],
           i + 1)

RECURSIVE PostponedLoop(_, _)
PostponedLoop(h, i) ==
    IF i > Len(h.postponed) THEN h
    ELSE
      LET it == h.postponed[i]
          found == it.name \in DOMAIN h.typeMap
          placeholder == Len(h.nodes) + 1
          ns1 == IF found THEN h.nodes
                 ELSE Append(h.nodes, NewType("Class", it.name, NULL, 0))
          t == IF found THEN h.typeMap[it.name] ELSE placeholder
      IN PostponedLoop(
           [ h EXCEPT !.nodes = WriteSlot(ns1, it.type, t),
                      !.g.flushLog = Append(@, it.type),
                      !.g.ub = @ \/ IsFreed(h.nodes, it.type.node) ],
           i + 1)

UpdatePostponedFieldNames(h) == PostponedLoop(h, 1)

\* "AnonymousType" << count
AnonymousName(count) == << "AnonymousType" \o ToString(count) >>

IsAnonymousName(name) ==
    \/ name = <<UnnamedTag>>
    \/ \E i \in 1..Len(name) : name[i] \in UnnamedTypeNames

\* The loops over _ir->_types and over a type's getSubUDTS(), calling
\* renameAnonymousType on list[lo], ..., list[hi] in that order (the range is
\* halved only to keep the evaluation shallow).  acc.nodes: the objects;
\* acc.count: *unnamedTypeCount; acc.ub: a deleted object was visited.
RECURSIVE RenameRange(_, _, _, _)
RenameRange(acc, list, lo, hi) ==
    IF lo > hi \/ acc.nodes = <<>> THEN acc
    ELSE IF lo < hi
    THEN LET mid == (lo + hi) \div 2
             left == RenameRange(acc, list, lo, mid)
         IN RenameRange(left, list, mid + 1, hi)
    ELSE
      \* renameAnonymousType(list[lo], unnamedTypeCount)
      LET type == list[lo]
          ns == acc.nodes
          anon == IsAnonymousName(ns[type].name)
          root == GetNamespace(ns, type) = NULL /\ ~HasSeparator(ns[type].name)
          ns1 == IF ~anon THEN ns
                 ELSE IF root THEN [ ns EXCEPT ![type].name = AnonymousName(acc.count) ]
                 ELSE [ ns EXCEPT ![type].name = <<>> ]
          acc1 == [ nodes |-> ns1,
                    count |-> IF anon /\ root THEN acc.count + 1 ELSE acc.count,
                    ub |-> acc.ub \/ IsFreed(ns, type) ]
      IN IF HasSubUDTS(ns1, type)
         THEN RenameRange(acc1, ns1[type].subUDTs, 1, Len(ns1[type].subUDTs))
         ELSE acc1

RenameAnonymousTypes(h) ==
    LET r == RenameRange([ nodes |-> h.nodes, count |-> 0, ub |-> FALSE ], h.types, 1,
                        Len(h.types))
    IN [ h EXCEPT !.nodes = r.nodes, !.g.ub = @ \/ r.ub ]

\* initBaseTypeList: one new Type per entry of baseTypeArray, each pushed on
\* the root list, _typeMap[name] assigned (not inserted) each time.
RECURSIVE BaseTypeLoop(_, _, _)
BaseTypeLoop(h, names, i) ==
    IF i > Len(names) THEN h
    ELSE
      LET type == Len(h.nodes) + 1
          name == SegName(names[i])
      IN BaseTypeLoop(
           [ h EXCEPT !.nodes = Append(@, NewBaseType(name, 0)),
                      !.typeMap = IF name \in DOMAIN @ THEN [ @ EXCEPT ![name] = type ]
                                  ELSE @ @@ (name :> type),
                      !.types = Append(@, type) ],
           names, i + 1)

InitBaseTypeList(h) == BaseTypeLoop(h, Append(baseTypeArray, errorNoType), 1)

\* ------------------------------------------------------- the PDB files
\* The symbols the global scope of a PDB file may hold, by the tag findChildren
\* is asked for.
ClassOuterInner ==
    Class(<<"Outer", "Inner">>, 16,
          << Data("a", TypUDT(<<"Bar">>)),
             Data("b", TypBase(btUInt, 4)),
             Class(<<"Leaf">>, 4, <<>>) >>)
ClassLeaf == Class(<<"Outer", "Inner", "Leaf">>, 4, <<>>)
ClassBar == Class(<<"Bar">>, 8, << Data("x", TypBase(btInt, 4)) >>)
ClassA ==
    Class(<<"A">>, 8,
          << BaseClass(<<"Bar">>),
             Data("m", TypUDT(<<"Missing">>)),
             Data("n", TypPtr(TypUDT(<<"Bar">>))) >>)
ClassBad == Class(<<"Outer", "Bad">>, 8, << BaseClass(<<"Base">>), TagFail >>)
ClassHost ==
    Class(<<"Host">>, 8,
          << BaseClass(<<"Base">>),
             Data("w", TypBase(btFloat, 3)),
             Sym("Function", <<"f">>, 0, NoTyp, <<>>, "none"),
             Class(<<"Host", "In">>, 4, <<>>) >>)
EnumColor ==
    Enum(<<"Outer", "Inner", "Color">>,
         << Data("Red", NoTyp), Data("Green", NoTyp) >>)
TypedefHandle == Typedef(<<"Handle">>, TypPtr(TypUDT(<<"Bar">>)))

\* PDB files whose types use primitive types of many codes and widths.
ClassPrims ==
    Class(<<"Prims">>, 32,
          << Data("c", TypBase(2, 1)),
             Data("i", TypBase(btInt, 4)),
             Data("u", TypBase(btUInt, 16)),
             Data("d", TypBase(btFloat, 8)),
             Data("l", TypBase(13, 4)) >>)
ClassOdd ==
    Class(<<"Odd">>, 8, << Data("i", TypBase(btInt, 16)), Data("u", TypBase(btUInt, 16)) >>)
ClassWide ==
    Class(<<"Wide">>, 16,
          << Data("u", TypBase(btUInt, 8)),
             Data("v", TypBase(btUInt, 4)),
             Data("f", TypBase(btFloat, 16)) >>)
TypedefWord == Typedef(<<"Word">>, TypBase(btUInt, 4))
TypedefI8 == Typedef(<<"I8">>, TypBase(btInt, 1))

\* PDB files with a class on the blacklist, a class nested in it, and users of it.
ClassHidden == Class(<<"Hidden">>, 8, << Data("x", TypBase(btInt, 4)) >>)
ClassHiddenSub == Class(<<"Hidden", "Sub">>, 4, <<>>)
ClassUser ==
    Class(<<"User">>, 8,
          << Data("h", TypUDT(<<"Hidden">>)), Class(<<"Hidden">>, 8, <<>>) >>)
TypedefHiddenT == Typedef(<<"HiddenT">>, TypPtr(TypUDT(<<"Hidden">>)))
\* A typedef with a blacklisted name of its own.
TypedefHidden == Typedef(<<"Hidden">>, TypBase(btInt, 4))

\* PDB files with unnamed types: at the global scope, as the type of a field
\* (an unnamed union), and nested by their decorated name.
ClassUnnamedTag == Class(<<UnnamedTag>>, 4, << Data("t", TypBase(btInt, 4)) >>)
ClassUnnamedType == Class(<<"<unnamed-type-u>">>, 4, <<>>)
ClassBox ==
    Class(<<"Box">>, 8,
          << Data("u", TypAnon(<< Data("i", TypBase(btInt, 4)) >>)),
             Class(<<"Part">>, 4, <<>>) >>)
ClassBoxUnnamed == Class(<<"Box", "<unnamed-type-u>">>, 4, <<>>)
EnumUnnamedTag == Enum(<<UnnamedTag>>, << Data("Zero", NoTyp) >>)
\* A class symbol whose get_name gives the empty string.
ClassNameless == Class(<<>>, 4, <<>>)
\* PDB files in which a registered type with no owner is met again under an
\* owner: a global class Inner and the decorated name Outer::Inner::Leaf; a
\* typedef declared inside Box (the global scope gives it as Box::Part) and a
\* class Part nested in Box.
ClassInner == Class(<<"Inner">>, 4, <<>>)
ClassWhole == Class(<<"Whole">>, 8, << Data("x", TypBase(btInt, 4)) >>)
ClassBoxPart == Class(<<"Box">>, 8, << Class(<<"Part">>, 8, <<>>) >>)
TypedefBoxPart == Typedef(<<"Box", "Part">>, TypUDT(<<"Whole">>))
\* PDB files with a member whose type is a class symbol with the empty name
\* (getName leaves the name empty when the string cannot be converted), next
\* to a member of a class declared later and a typedef of it.
ClassHolder ==
    Class(<<"Holder">>, 16,
          << Data("p", TypPtr(TypUDT(<<>>))), Data("q", TypUDT(<<"Later">>)) >>)
ClassLater == Class(<<"Later">>, 4, << Data("x", TypBase(btInt, 4)) >>)
TypedefLaterT == Typedef(<<"LaterT">>, TypUDT(<<"Later">>))
\* PDB files with a class whose children come with and without a decorated
\* name, in mixed order; the decorated ones are also global declarations.
ClassMixFirst == Class(<<"Mix", "First">>, 4, <<>>)
EnumMixTone == Enum(<<"Mix", "Tone">>, << Data("Lo", NoTyp) >>)
ClassMix ==
    Class(<<"Mix">>, 8,
          << ClassMixFirst,
             Data("a", TypBase(btInt, 4)),
             EnumMixTone,
             Class(<<"Plain">>, 4, <<>>),
             Enum(<<"Flag">>, << Data("On", NoTyp) >>) >>)
\* PDB files that declare the enum E several times: with no member (a forward
\* declaration), with members, with other members, with a member whose name
\* cannot be read; and an enum nested in a class, also given at global scope.
EnumForward == Enum(<<"E">>, <<>>)
EnumTwo == Enum(<<"E">>, << Data("A", NoTyp), Data("B", NoTyp) >>)
EnumOne == Enum(<<"E">>, << Data("C", NoTyp) >>)
EnumUnreadable ==
    Enum(<<"E">>, << Data("D", NoTyp), Sym("Data", <<"X">>, 0, NoTyp, <<>>, "name") >>)
EnumKindGlobal == Enum(<<"K", "Kind">>, << Data("G", NoTyp) >>)
ClassK == Class(<<"K">>, 4, << Enum(<<"Kind">>, << Data("N", NoTyp), Data("M", NoTyp) >>) >>)

Catalog(tag) ==
    CASE pdbs = "graph" /\ tag = "UDT" ->
           { ClassOuterInner, ClassLeaf, ClassBar, ClassA, ClassBad, ClassHost }
      [] pdbs = "graph" /\ tag = "Enum" -> { EnumColor }
      [] pdbs = "graph" /\ tag = "Typedef" -> { TypedefHandle }
      [] pdbs = "primitives" /\ tag = "UDT" -> { ClassPrims, ClassOdd, ClassWide }
      [] pdbs = "primitives" /\ tag = "Typedef" -> { TypedefWord, TypedefI8 }
      [] pdbs = "blacklist" /\ tag = "UDT" -> { ClassHidden, ClassHiddenSub, ClassUser }
      [] pdbs = "blacklist" /\ tag = "Typedef" -> { TypedefHiddenT, TypedefHidden }
      [] pdbs = "unnamed" /\ tag = "UDT" ->
           { ClassUnnamedTag, ClassUnnamedType, ClassBox, ClassBoxUnnamed,
             ClassNameless }
      [] pdbs = "unnamed" /\ tag = "Enum" -> { EnumUnnamedTag }
      [] pdbs = "relink" /\ tag = "UDT" ->
           { ClassInner, ClassLeaf, ClassWhole, ClassBoxPart }
      [] pdbs = "relink" /\ tag = "Typedef" -> { TypedefBoxPart }
      [] pdbs = "unbound" /\ tag = "UDT" -> { ClassHolder, ClassLater }
      [] pdbs = "unbound" /\ tag = "Typedef" -> { TypedefLaterT }
      [] pdbs = "mixed" /\ tag = "UDT" -> { ClassMix, ClassMixFirst }
      [] pdbs = "mixed" /\ tag = "Enum" -> { EnumMixTone }
      [] pdbs = "enums" /\ tag = "UDT" -> { ClassK }
      [] pdbs = "enums" /\ tag = "Enum" ->
           { EnumForward, EnumTwo, EnumOne, EnumUnreadable, EnumKindGlobal }
      [] pdbs = "unregistered" /\ tag = "UDT" -> { ClassA, ClassBar }
      [] pdbs = "unregistered" /\ tag = "Enum" -> { EnumColor }
      [] pdbs = "unregistered" /\ tag = "Typedef" -> { TypedefWord }
      [] OTHER -> {}

SeqsUpTo(S, n) == UNION { [ 1..k -> S ] : k \in 0..n }

\* ------------------------------------------------------------ the scan
Heap == [ nodes |-> nodes, typeMap |-> typeMap, types |-> types,
          postponed |-> postponed, g |-> hist ]

Store(h) ==
    /\ nodes' = h.nodes
    /\ typeMap' = h.typeMap
    /\ types' = h.types
    /\ postponed' = h.postponed

\* The state at the call of startScan on a batch of PDB files of one kind.
Start(kind) ==
    /\ pdbs = kind
    /\ pc = "start"
    /\ rc = DDR_RC_OK
    /\ nodes = <<>>
    /\ typeMap = EmptyMap
    /\ types = <<>>
    /\ postponed = <<>>
    /\ handles = {}
    /\ fileNo = 0
    /\ nDecls = 0
    /\ hist = [ failed |-> FALSE, late |-> FALSE, earlyWrite |-> FALSE,
                ub |-> FALSE, garbage |-> 0, flushLog |-> <<>>,
                opened |-> {}, openFailed |-> 0, enumerated |-> {},
                seen |-> <<>>,
                flushRuns |-> 0, renameRuns |-> 0, everUB |-> FALSE,
                dispatch |-> <<>> ]

Init == Start("graph")
InitPrimitives == Start("primitives")
InitBlacklist == Start("blacklist")
InitUnnamed == Start("unnamed")
InitRelink == Start("relink")
InitEnums == Start("enums")
InitMixed == Start("mixed")
InitUnbound == Start("unbound")
\* The files are scanned on a machine where the DiaSource class is not
\* registered: CoCreateInstance fails and loadDataFromPdb goes through the
\* msdia libraries.
InitUnregistered == Start("unregistered")

\* The handles startScan declares, passes to loadDataFromPdb and releases.
SourceHandles == {"diaDataSource", "diaSession", "diaSymbol"}

\* startScan up to its loop: initBaseTypeList, CoInitialize, loadBlacklist.
\* When one of them fails the loop, the flush and the renamer are all skipped.
StartScan ==
    /\ pc = "start"
    /\ Store(InitBaseTypeList(Heap))
    /\ \E ok \in BOOLEAN :
         /\ rc' = IF ok THEN DDR_RC_OK ELSE DDR_RC_ERROR
         /\ pc' = IF ok THEN "loop" ELSE "done"
    /\ UNCHANGED <<handles, fileNo, nDecls, pdbs, hist>>

\* The loop goes on (it != debugFiles->end()) with loadDataFromPdb on the next
\* file: the step that fails, if any, decides which handles are left set, and
\* the three passes are skipped.
\* With CoCreateInstance failing, a library's DllGetClassObject gives a class
\* factory that is not released: always when an instance is created from it,
\* possibly when no library gives an instance.
LoadDataFromPdb ==
    /\ pc = "loop"
    /\ fileNo < MaxFiles
    /\ \E step \in {"ok", "create", "load", "session", "scope"} :
         /\ rc' = IF step = "ok" THEN DDR_RC_OK ELSE DDR_RC_ERROR
         /\ \E factory \in IF pdbs # "unregistered" THEN {FALSE}
                            ELSE IF step = "create" THEN BOOLEAN ELSE {TRUE} :
              handles' =
                (CASE step = "create" -> {}
                   [] step \in {"load", "session"} -> {"diaDataSource"}
                   [] step = "scope" -> {"diaDataSource", "diaSession"}
                   [] OTHER -> {"diaDataSource", "diaSession", "diaSymbol"})
                \cup (handles \ SourceHandles)
                \cup (IF factory THEN {"classFactory"} ELSE {})
         /\ hist' = [ hist EXCEPT !.opened = @ \cup {fileNo + 1},
                        !.openFailed = IF step # "ok" /\ @ = 0 THEN fileNo + 1
                                       ELSE @ ]
         /\ pc' = IF step = "ok" THEN "udt" ELSE "release"
    /\ fileNo' = fileNo + 1
    /\ UNCHANGED <<nodes, typeMap, types, postponed, nDecls, pdbs>>

\* addChildrenSymbols(diaSymbol, tag, NULL), reached with rc DDR_RC_OK; the
\* passes after a failed one are skipped.  An undefined read or write in it
\* (g.ub) either ends the process or goes unnoticed.
Pass(tag, next) ==
    \E findFails \in BOOLEAN :
      \E syms \in IF findFails THEN { <<>> }
                  ELSE SeqsUpTo(Catalog(tag), MaxDecls - nDecls) :
        \E garbage \in IF tag = "Typedef" THEN {0, 1} ELSE {0} :
          \E r \in { AddChildrenSymbols(
                       [ Heap EXCEPT !.g.ub = FALSE, !.g.garbage = garbage,
                           !.g.enumerated = @ \cup {fileNo},
                           !.g.seen = @ \o [ i \in 1..Len(syms) |->
                                              [ file |-> fileNo, tag |-> tag,
                                                name |-> syms[i].name ] ] ],
                       syms, findFails, NULL) } :
            /\ garbage = 1 => r.h.g.ub
            /\ Store(r.h)
            /\ hist' = [ r.h.g EXCEPT !.everUB = @ \/ r.h.g.ub, !.garbage = 0,
                                      !.dispatch = <<>> ]
            /\ rc' = r.rc
            /\ nDecls' = nDecls + Len(syms)
            /\ \E crash \in IF r.h.g.ub THEN BOOLEAN ELSE {FALSE} :
                 pc' = IF crash THEN "undefined"
                       ELSE IF r.rc # DDR_RC_OK THEN "release" ELSE next
            /\ UNCHANGED <<handles, fileNo, pdbs>>

\* The UDT pass followed at once by the typedef pass.
ScanUDTs_ThenTypedefs == pc = "udt" /\ Pass("UDT", "typedef")

ScanUDTs == pc = "udt" /\ Pass("UDT", "enum")
ScanEnums == pc = "enum" /\ Pass("Enum", "typedef")
ScanTypedefs == pc = "typedef" /\ Pass("Typedef", "release")

\* The releases at the end of the loop body without the break on an error.
ReleaseSource_NoBreak ==
    /\ pc = "release"
    /\ handles' = handles \ SourceHandles
    /\ pc' = "loop"
    /\ UNCHANGED <<rc, nodes, typeMap, types, postponed, fileNo, nDecls, pdbs, hist>>

\* The releases at the end of the loop body; on an error the break, after
\* which the flush and the renamer are skipped and startScan returns rc.
ReleaseSource ==
    /\ pc = "release"
    /\ handles' = handles \ SourceHandles
    /\ pc' = IF rc # DDR_RC_OK THEN "done" ELSE "loop"
    /\ UNCHANGED <<rc, nodes, typeMap, types, postponed, fileNo, nDecls, pdbs, hist>>

\* After the last file, with rc DDR_RC_OK: updatePostponedFieldNames.
FlushPostponed ==
    /\ pc = "loop"
    /\ \E h \in { UpdatePostponedFieldNames([ Heap EXCEPT !.g.ub = FALSE ]) } :
         /\ Store(h)
         /\ hist' = [ h.g EXCEPT !.everUB = @ \/ h.g.ub, !.flushRuns = @ + 1 ]
         /\ \E crash \in IF h.g.ub THEN BOOLEAN ELSE {FALSE} :
              pc' = IF crash THEN "undefined" ELSE "rename"
    /\ UNCHANGED <<rc, handles, fileNo, nDecls, pdbs>>

\* renameAnonymousTypes, then CoUninitialize and return.
RenameAnonymous ==
    /\ pc = "rename"
    /\ \E h \in { RenameAnonymousTypes([ Heap EXCEPT !.g.ub = FALSE ]) } :
         /\ Store(h)
         /\ hist' = [ h.g EXCEPT !.everUB = @ \/ h.g.ub, !.renameRuns = @ + 1 ]
         /\ \E crash \in IF h.g.ub THEN BOOLEAN ELSE {FALSE} :
              pc' = IF crash THEN "undefined" ELSE "done"
    /\ UNCHANGED <<rc, handles, fileNo, nDecls, pdbs>>

Next ==
    \/ StartScan
    \/ LoadDataFromPdb
    \/ ScanUDTs
    \/ ScanEnums
    \/ ScanTypedefs
    \/ ReleaseSource
    \/ FlushPostponed
    \/ RenameAnonymous

Spec == Init /\ [][Next]_vars
SpecPrimitives == InitPrimitives /\ [][Next]_vars
SpecBlacklist == InitBlacklist /\ [][Next]_vars
SpecUnnamed == InitUnnamed /\ [][Next]_vars
SpecRelink == InitRelink /\ [][Next]_vars
SpecEnums == InitEnums /\ [][Next]_vars
SpecMixed == InitMixed /\ [][Next]_vars
SpecUnbound == InitUnbound /\ [][Next]_vars
SpecUnregistered == InitUnregistered /\ [][Next]_vars

\* ------------------------------------------------------------ properties
\* The vocabulary of the properties below.
Ids == 1..Len(nodes)
UDTs == { i \in Ids : nodes[i].kind # "Base" }
Live == { i \in UDTs : ~nodes[i].freed }
Registered == { typeMap[k] : k \in DOMAIN typeMap }
Roots == { types[i] : i \in 1..Len(types) }
ChildrenOf(o) == { nodes[o].subUDTs[i] : i \in 1..Len(nodes[o].subUDTs) }
Nested == UNION { ChildrenOf(o) : o \in { i \in UDTs : nodes[i].kind = "Class" } }
Occurrences(list, x) == Cardinality({ i \in 1..Len(list) : list[i] = x })
FullName(i) == GetFullName(nodes, i)
SuccessfulScan == pc = "done" /\ rc = DDR_RC_OK
Declared(f, tag, name) ==
    \E i \in 1..Len(hist.seen) :
      hist.seen[i] = [ file |-> f, tag |-> tag, name |-> name ]
PostponedSlots == [ i \in 1..Len(postponed) |-> postponed[i].type ]
FieldsOf(c) == 1..Len(nodes[c].fieldMembers)

\* The nodes the graph reaches: registered, on the root list, in a child list,
\* or the owner of such a node.
Linked ==
    LET direct == (Registered \cup Roots \cup Nested) \cap Live
    IN direct \cup { nodes[i].owner : i \in { j \in direct : nodes[j].owner # NULL } }

\* C1: no two distinct class, enum or typedef nodes that the graph reaches
\* (registered, on the root list, in a child list, or owner of such a node)
\* have the same non-empty fully-qualified name.
C1_UniqueFullNames ==
    \A a \in Linked, b \in Linked :
      (a # b /\ FullName(a) # <<>>) => FullName(a) # FullName(b)

\* C2: owner links and child lists agree: a node with owner O occurs exactly
\* once in O's child list, and every entry of a child list has that owner.
C2_OwnerChildAgree ==
    /\ \A t \in Live :
         nodes[t].owner # NULL => Occurrences(nodes[nodes[t].owner].subUDTs, t) = 1
    /\ \A o \in Live : \A t \in ChildrenOf(o) : nodes[t].owner = o

\* C3: once two sources have both declared the class Outer::Inner with the
\* same fields a, b and the same nested type Leaf, the child list of Outer
\* holds exactly one node Inner, and that node holds each field and the nested
\* type exactly once.
C3_MergedOnce ==
    ( /\ Declared(1, "UDT", <<"Outer", "Inner">>)
      /\ Declared(2, "UDT", <<"Outer", "Inner">>)
      /\ ~hist.everUB )
    => /\ <<"Outer">> \in DOMAIN typeMap
       /\ LET N == typeMap[<<"Outer">>]
              foo == { t \in ChildrenOf(N) : nodes[t].name = <<"Inner">> }
          IN /\ Cardinality(foo) = 1
             /\ Occurrences([ i \in 1..Len(nodes[N].subUDTs) |->
                                nodes[nodes[N].subUDTs[i]].name ], <<"Inner">>) = 1
             /\ \A F \in foo :
                  /\ [ i \in FieldsOf(F) |-> nodes[F].fieldMembers[i].name ]
                       = << <<"a">>, <<"b">> >>
                  /\ [ i \in 1..Len(nodes[F].subUDTs) |->
                         nodes[nodes[F].subUDTs[i]].name ] = << <<"Leaf">> >>

\* C4: when the only declaration so far is the class Outer::Inner::Leaf (the
\* registry knew neither Outer nor Inner), Outer is on the root list, Inner is
\* in Outer's child list and not on the root list, and Leaf is in Inner's child
\* list and not on the root list.
C4_NestedPathLinked ==
    hist.seen = << [ file |-> 1, tag |-> "UDT", name |-> <<"Outer", "Inner", "Leaf">> ] >>
    => \E o \in Live, n \in Live, l \in Live :
         /\ nodes[o].name = <<"Outer">> /\ o \in Roots
         /\ nodes[n].name = <<"Inner">> /\ n \in ChildrenOf(o) /\ n \notin Roots
         /\ nodes[l].name = <<"Leaf">> /\ l \in ChildrenOf(n) /\ l \notin Roots

\* C5: after a successful scan every field whose type name the registry knows
\* is bound to the node the registry maps that name to, whether the field was
\* built before the name was registered (and postponed) or after it.
C5_EarlyAndLateBound ==
    SuccessfulScan =>
      \A c \in Live : \A i \in FieldsOf(c) :
        LET f == nodes[c].fieldMembers[i]
        IN (f.typeName # <<>> /\ f.typeName \in DOMAIN typeMap)
           => f.fieldType = typeMap[f.typeName]

\* A successful scan with a field typed Bar that was postponed and a field
\* typed Bar that was bound at once, both bound to the registered Bar.
C5_Witness ==
    /\ SuccessfulScan
    /\ <<"Bar">> \in DOMAIN typeMap
    /\ \E c \in Live, d \in Live : \E i \in FieldsOf(c), j \in FieldsOf(d) :
         /\ c # d
         /\ nodes[c].fieldMembers[i].typeName = <<"Bar">>
         /\ nodes[d].fieldMembers[j].typeName = <<"Bar">>
         /\ \E k \in 1..Len(postponed) : postponed[k].type = Slot(c, "field", i)
         /\ \A k \in 1..Len(postponed) : postponed[k].type # Slot(d, "field", j)
         /\ nodes[c].fieldMembers[i].fieldType = typeMap[<<"Bar">>]
         /\ nodes[d].fieldMembers[j].fieldType = typeMap[<<"Bar">>]

\* The names no symbol of the files declares.
NeverRegistered == { <<"Missing">>, <<"Base">> }

\* C6: a field or superclass reference to a name that is never registered
\* does not fail (the resolver returns success), and after a successful scan
\* the reference is bound to a placeholder: a non-null class node with that
\* name that is not registered, not on the root list and in no child list.
C6_PlaceholderForUnknown ==
    /\ LET h == Heap
           classes == { i \in Live : nodes[i].kind = "Class" }
       IN \A name \in NeverRegistered :
            /\ name \notin DOMAIN typeMap
            /\ \A c \in classes :
                 /\ SetTypeUDT(h, TypUDT(name), Slot(c, "field", 1), c).rc = DDR_RC_OK
                 /\ SetSuperClassName(h, BaseClass(name), c).rc = DDR_RC_OK
    /\ SuccessfulScan =>
         \A k \in 1..Len(postponed) :
           (postponed[k].name \notin DOMAIN typeMap /\ postponed[k].type.node \in Live)
           => LET t == ReadSlot(nodes, postponed[k].type)
              IN /\ t # NULL
                 /\ nodes[t].kind = "Class"
                 /\ ~nodes[t].freed
                 /\ nodes[t].name = postponed[k].name
                 /\ t \notin Registered
                 /\ t \notin Roots
                 /\ t \notin Nested

\* A successful scan that bound a field typed Missing and a superclass
\* reference, neither name registered, to placeholders.
C6_Witness ==
    /\ SuccessfulScan
    /\ \E k \in 1..Len(postponed), m \in 1..Len(postponed) :
         /\ postponed[k].type.member = "field"
         /\ postponed[k].name = <<"Missing">>
         /\ postponed[k].type.node \in Live
         /\ ReadSlot(nodes, postponed[k].type) # NULL
         /\ postponed[m].type.member = "super"
         /\ postponed[m].name \notin DOMAIN typeMap
         /\ postponed[m].type.node \in Live
         /\ ReadSlot(nodes, postponed[m].type) # NULL

\* C7: postponed references are resolved exactly once and only after all
\* sources are scanned: no slot with a postponed entry is written while a
\* source is processed, the flush runs at most once and writes the slots of the
\* entries once each in insertion order, and when the scan ends (with success:
\* a failed scan skips the flush) no recorded slot is left unbound.
C7_FlushOnceAfterAllSources ==
    /\ ~hist.earlyWrite
    /\ hist.flushRuns <= 1
    /\ pc \notin {"rename", "done", "undefined"} => hist.flushLog = <<>>
    /\ hist.flushRuns = 1 => hist.flushLog = PostponedSlots
    /\ \A i \in 1..Len(hist.flushLog), j \in 1..Len(hist.flushLog) :
         hist.flushLog[i] = hist.flushLog[j] => i = j
    /\ SuccessfulScan =>
         \A k \in 1..Len(postponed) :
           /\ postponed[k].type.node \in Live
           /\ ReadSlot(nodes, postponed[k].type) # NULL

\* C8: once the dispatch of a declaration has failed (at the top level or in a
\* child enumeration) no later declaration is dispatched, and the scan returns
\* the error.
C8_ErrorPropagates ==
    /\ hist.failed => ~hist.late
    /\ (pc = "done" /\ hist.failed) => rc = DDR_RC_ERROR

\* C9: when source k is the first that fails to open, only the sources before
\* k are enumerated, no source after k is opened, neither the flush nor the
\* renamer runs, and the scan returns the error.
C9_OpenFailureStopsScan ==
    LET k == hist.openFailed IN
      k # 0 =>
        /\ hist.opened = 1..k
        /\ hist.enumerated = 1..(k - 1)
        /\ \A i \in 1..Len(hist.seen) : hist.seen[i].file < k
        /\ hist.flushRuns = 0
        /\ hist.renameRuns = 0
        /\ rc = DDR_RC_ERROR
        /\ pc \in {"release", "done"}

\* A scan that enumerated declarations of source 1, failed to open source 2
\* and returned.
C9_Witness ==
    /\ pc = "done"
    /\ hist.openFailed = 2
    /\ hist.seen # <<>>
    /\ postponed # <<>>

\* C10: a class whose child processing failed during its first-sighting
\* construction is freed and nothing refers to it: no child list, the
\* registry, the root list, and no postponed slot inside it.
C10_FailedNodeUnreferenced ==
    \A n \in { i \in UDTs : nodes[i].kind = "Class" /\ nodes[i].freed } :
      /\ n \notin Nested
      /\ n \notin Registered
      /\ n \notin Roots
      /\ \A k \in 1..Len(postponed) : postponed[k].type.node # n

\* C11: a class whose qualified name is on the blacklist has no node in the
\* registry and no entry in any child list, whatever other declarations use
\* its name as a prefix, and after a successful scan every field typed as that
\* class is bound to an unregistered placeholder carrying its name.
C11_BlacklistedNeverInGraph ==
    /\ \A name \in Blacklist : name \notin DOMAIN typeMap
    /\ \A i \in Nested \cup Roots : FullName(i) \notin Blacklist
    /\ SuccessfulScan =>
         \A c \in Live : \A i \in FieldsOf(c) :
           LET f == nodes[c].fieldMembers[i]
           IN f.typeName \in Blacklist
              => /\ f.fieldType # NULL
                 /\ nodes[f.fieldType].name = f.typeName
                 /\ f.fieldType \notin Registered

\* The lengths get_length may return for a primitive type.
Widths == {0, 1, 2, 3, 4, 8, 16, 32}

\* The name the primitive type of a code and a length resolves to ("" when
\* the resolution fails).
ExpectedBaseName(code, len) ==
    CASE code = btUInt -> CASE len = 1 -> "U8" [] len = 2 -> "U16" [] len = 4 -> "U32"
                            [] len = 8 -> "U64" [] len = 16 -> "U128" [] OTHER -> ""
      [] code = btInt -> CASE len = 1 -> "I8" [] len = 2 -> "I16" [] len = 4 -> "I32"
                           [] len = 8 -> "I64" [] OTHER -> ""
      [] code = btFloat -> CASE len = 4 -> "float" [] len = 8 -> "double" [] OTHER -> ""
      [] OTHER -> baseTypeArray[code + 1]

\* t is the one node a primitive type name stands for.
IsBaseNode(t, name) ==
    /\ t # NULL
    /\ t = typeMap[<<name>>]
    /\ nodes[t].kind = "Base"
    /\ nodes[t].name = <<name>>

\* The type symbol of field i of class c in the PDB files, found by name.
DeclaredTypes(c, i) ==
    { d.typ : d \in UNION { { s.children[k] : k \in 1..Len(s.children) } :
                            s \in { s \in Catalog("UDT") : s.name = nodes[c].name } }
            \cap { d \in UNION { { s.children[k] : k \in 1..Len(s.children) } :
                                 s \in Catalog("UDT") } :
                   d.tag = "Data" /\ d.name = nodes[c].fieldMembers[i].name } }

\* C12: the resolution of a primitive type is a function of its code and
\* length: uint of length 1/2/4/8/16, int of 1/2/4/8, float of 4/8 and every
\* other code resolve to the one node of the name the tables give, any other
\* length of int, uint or float fails; and every field and typedef bound
\* earlier in the scan holds the node the same code and length resolve to now.
C12_BaseTypeResolution ==
    pc # "start" =>
      /\ \A code \in BaseTypeCodes, len \in Widths :
           LET r == SetBaseType(Heap, code, len)
               e == ExpectedBaseName(code, len)
           IN IF e = "" THEN r.rc = DDR_RC_ERROR
              ELSE r.rc = DDR_RC_OK /\ IsBaseNode(r.type, e)
      /\ \A c \in { i \in Live : nodes[i].kind = "Class" } : \A i \in FieldsOf(c) :
           \A typ \in DeclaredTypes(c, i) :
             typ.k = "base" =>
               /\ ExpectedBaseName(typ.code, typ.len) # ""
               /\ IsBaseNode(nodes[c].fieldMembers[i].fieldType,
                             ExpectedBaseName(typ.code, typ.len))
      /\ \A t \in { i \in Live : nodes[i].kind = "Typedef" } :
           (nodes[t].name = TypedefWord.name /\ t \in Registered)
           => IsBaseNode(nodes[t].aliasedType, "U32")

\* A successful scan in which the uint of length 4 was resolved for a field of
\* Wide and for the typedef Word, both bound to the same node, the uint of
\* length 16 of Odd was resolved, and its int of length 16 and the float of
\* length 16 of Wide failed.
C12_Witness ==
    /\ SuccessfulScan
    /\ \E w \in Live, o \in Live, t \in Live :
         /\ nodes[w].name = <<"Wide">> /\ Len(nodes[w].fieldMembers) = 2
         /\ nodes[o].name = <<"Odd">> /\ Len(nodes[o].fieldMembers) = 1
         /\ nodes[t].name = <<"Word">> /\ nodes[t].kind = "Typedef"
         /\ nodes[w].fieldMembers[2].fieldType = nodes[t].aliasedType
         /\ nodes[t].aliasedType = typeMap[<<"U32">>]
         /\ nodes[o].fieldMembers[1].fieldType = typeMap[<<"U128">>]

\* The declarations of the scan that are unnamed types of the global scope:
\* every sighting of the unnamed-tag marker is a type of its own, an
\* unnamed-type name is one type however often it is sighted.
UnnamedTagSightings ==
    { i \in 1..Len(hist.seen) : hist.seen[i].name = <<UnnamedTag>> }
UnnamedTypeNamesSeen ==
    { hist.seen[i].name : i \in { j \in 1..Len(hist.seen) :
        /\ Len(hist.seen[j].name) = 1
        /\ hist.seen[j].name # <<UnnamedTag>>
        /\ IsAnonymousName(hist.seen[j].name) } }
UnnamedRootCount == Cardinality(UnnamedTagSightings) + Cardinality(UnnamedTypeNamesSeen)

\* C13: with N unnamed types of the global scope declared in the scan, the
\* renamer names them AnonymousType0 .. AnonymousType(N-1) in the order of the
\* root list; every unnamed type with an owner or a separator in its name gets
\* the empty name; the name of every other type is unchanged.
C13_AnonymousNamesSequential ==
    pc = "rename" =>
      LET after == RenameAnonymousTypes(Heap).nodes
          given(k) == { i \in Live : after[i].name = AnonymousName(k) }
          pos(i) == CHOOSE p \in 1..Len(types) : types[p] = i
      IN /\ \A k \in 0..(UnnamedRootCount - 1) :
              /\ Cardinality(given(k)) = 1
              /\ \A i \in given(k) :
                   /\ IsAnonymousName(nodes[i].name)
                   /\ nodes[i].owner = NULL
                   /\ i \in Roots
         /\ \A k \in UnnamedRootCount..Len(nodes) : given(k) = {}
         /\ \A k \in 0..(UnnamedRootCount - 1), l \in 0..(UnnamedRootCount - 1) :
              \A i \in given(k), j \in given(l) :
                (i \in Roots /\ j \in Roots /\ k < l) => pos(i) < pos(j)
         /\ \A i \in Live :
              (IsAnonymousName(nodes[i].name)
               /\ (nodes[i].owner # NULL \/ HasSeparator(nodes[i].name)))
              => after[i].name = <<>>
         /\ \A i \in Ids :
              ~IsAnonymousName(nodes[i].name) => after[i].name = nodes[i].name

\* The effect of addType(id, addToIR) on the current state: nothing when the
\* full name of id is empty or a key already, one new key mapped to id and,
\* when addToIR, id appended to the root list otherwise; and getType of the
\* name succeeds afterwards.
RegisterFrame(id, addToIR) ==
    LET r == AddType(Heap, id, addToIR)
        fullName == GetFullName(nodes, id)
    IN /\ r.nodes = nodes
       /\ r.postponed = postponed
       /\ IF fullName = <<>> \/ fullName \in DOMAIN typeMap
          THEN r.typeMap = typeMap /\ r.types = types
          ELSE /\ DOMAIN r.typeMap = DOMAIN typeMap \cup {fullName}
               /\ r.typeMap[fullName] = id
               /\ \A k \in DOMAIN typeMap : r.typeMap[k] = typeMap[k]
               /\ r.types = IF addToIR THEN Append(types, id) ELSE types
       /\ fullName # <<>> =>
            GetType(r, fullName) = IF fullName \in DOMAIN typeMap
                                   THEN typeMap[fullName] ELSE id

\* The nodes handed to addType: every class, enum and typedef, and the nodes
\* of a primitive type that baseTypeArray names more than once.
Registrable == UDTs \cup { i \in Ids : nodes[i].name = <<"I8">> }

\* C14: after the base types are seeded, first registration wins: addType of
\* a node whose full name is empty or already a key changes neither the map
\* nor the root list, otherwise it adds one key and, only if addToIR, one
\* root; and a key of the map maps to the same node after every step.
C14_FirstRegistrationWins ==
    [][ pc # "start" =>
          /\ \A id \in Registrable, addToIR \in BOOLEAN : RegisterFrame(id, addToIR)
          /\ \A k \in DOMAIN typeMap : k \in DOMAIN typeMap' /\ typeMap'[k] = typeMap[k]
      ]_vars

\* A node whose full name was a key when it was handed to addType (it is not
\* the node of the key and not a root), a node with the empty full name, and
\* a registered root, at the end of a scan.
C14_Witness ==
    /\ \E i \in Live : /\ FullName(i) \in DOMAIN typeMap
                       /\ typeMap[FullName(i)] # i
                       /\ i \notin Roots
    /\ \E i \in Live : FullName(i) = <<>>
    /\ \E i \in UDTs \cap Live : i \in Registered /\ i \in Roots
    /\ pc = "done"

\* The primitive-type nodes: the nodes made by initBaseTypeList.
BaseNodes == { i \in Ids : nodes[i].kind = "Base" }

\* C15: once the base types are seeded, the root list holds at most one
\* primitive-type node per name: every primitive-type node on the root list
\* is the node the map gives for its name, and is there once.
C15_BaseTypesNotDuplicated ==
    pc # "start" =>
        \A i \in BaseNodes \cap Roots :
            /\ typeMap[nodes[i].name] = i
            /\ Occurrences(types, i) = 1
            /\ \A j \in BaseNodes \cap Roots : nodes[j].name = nodes[i].name => j = i

\* The place of a pass in the loop body of startScan.
PassOrder(tag) == CASE tag = "UDT" -> 1 [] tag = "Enum" -> 2 [] tag = "Typedef" -> 3

\* The declarations were dispatched file by file and, within a file, UDTs
\* before enums before typedefs.
SeenInOrder ==
    \A i, j \in 1..Len(hist.seen) :
        i < j => \/ hist.seen[i].file < hist.seen[j].file
                 \/ /\ hist.seen[i].file = hist.seen[j].file
                    /\ PassOrder(hist.seen[i].tag) <= PassOrder(hist.seen[j].tag)

\* C16: the phases of the scan are strictly ordered: per file the UDT pass is
\* over before the enum pass starts, and the enum pass before the typedef
\* pass; a file is opened only when the one before it is closed; the flush of
\* the postponed references starts only after the last file is closed; the
\* renamer starts only after the flush has ended; and the flush and the
\* renamer run only if the opening and the passes of every file returned
\* DDR_RC_OK.
C16_PhasesOrdered ==
    [][ /\ SeenInOrder'
        /\ pc' = "udt" => pc = "loop" /\ fileNo' = fileNo + 1
        /\ pc' = "enum" => pc = "udt" /\ rc' = DDR_RC_OK
        /\ pc' = "typedef" => pc = "enum" /\ rc' = DDR_RC_OK
        /\ fileNo' # fileNo => pc = "loop" /\ handles = {} /\ rc = DDR_RC_OK
        /\ hist'.flushRuns # hist.flushRuns =>
             /\ pc = "loop" /\ handles = {} /\ rc = DDR_RC_OK
             /\ hist.flushRuns = 0 /\ hist.renameRuns = 0
             /\ hist.openFailed = 0
             /\ hist.enumerated = hist.opened
             /\ pc' \in {"rename", "undefined"}
        /\ hist'.renameRuns # hist.renameRuns =>
             /\ pc = "rename" /\ handles = {} /\ rc = DDR_RC_OK
             /\ hist.flushRuns = 1 /\ hist.renameRuns = 0
             /\ hist.openFailed = 0
             /\ pc' \in {"done", "undefined"}
        /\ hist.flushRuns > 0 =>
             /\ fileNo' = fileNo /\ handles' = {} /\ hist'.seen = hist.seen
             /\ pc' \in {"rename", "done", "undefined"}
      ]_vars

\* Two files scanned, with a declaration in the first and in the second and
\* all three passes used, then the flush and the renamer.
C16_Witness ==
    /\ pc = "done" /\ rc = DDR_RC_OK
    /\ fileNo = 2 /\ hist.enumerated = {1, 2}
    /\ hist.flushRuns = 1 /\ hist.renameRuns = 1
    /\ \E i, j \in 1..Len(hist.seen) :
         /\ hist.seen[i].file = 1 /\ hist.seen[j].file = 2
         /\ hist.seen[i].tag # hist.seen[j].tag
    /\ { hist.seen[i].tag : i \in 1..Len(hist.seen) } = {"UDT", "Enum", "Typedef"}

\* C17: at most one source is open at a time, and whatever the outcome of
\* opening a file or of its three passes, every handle acquired for it is
\* released before the next file is opened and before startScan returns: no
\* handle is held between two files, during the flush and the renamer, or at
\* the return.
C17_HandlesReleased ==
    pc \in {"loop", "rename", "done"} => handles = {}

\* The number of member (SymTagData) symbols among the children of a class symbol.
DataCount(children) == Cardinality({ i \in 1..Len(children) : children[i].tag = "Data" })

\* One more enumeration of the children of class symbol S on the node c its
\* name is registered to: fields are appended only if c had none, nested
\* children only if c had none, and when c had no field all members of S are
\* appended.
EnumerationGuarded(S, c) ==
    LET r == AddChildrenSymbols([ Heap EXCEPT !.g.ub = FALSE ], S.children, FALSE, c)
        before == nodes[c]
        after == r.h.nodes[c]
    IN /\ before.fieldMembers # <<>> => after.fieldMembers = before.fieldMembers
       /\ before.subUDTs # <<>> => after.subUDTs = before.subUDTs
       /\ before.fieldMembers = <<>> =>
            Len(after.fieldMembers) = DataCount(S.children)
       /\ \A x \in Ids : Occurrences(after.subUDTs, x) <= 1

\* C18: over the sightings of a class, an enumeration of its children appends
\* fields only if it starts with the field list empty and nested children
\* only if it starts with the nested list empty, and an enumeration allowed
\* to add fields appends every one of them, so nothing is appended twice.
C18_ChildrenAddedOnce ==
    \A S \in Catalog("UDT") :
        (S.name \in DOMAIN typeMap /\ nodes[typeMap[S.name]].kind = "Class"
            /\ ~nodes[typeMap[S.name]].freed)
        => EnumerationGuarded(S, typeMap[S.name])

\* The names of the base-class relations among the children of class symbol S.
BaseClassNames(S) ==
    { S.children[k].name : k \in { k \in 1..Len(S.children) :
                                     S.children[k].tag = "BaseClass" } } \ { <<>> }

\* C19: after a successful scan, a registered class one of whose enumerated
\* declarations has a base-class relation naming S has its superclass bound
\* to a node named S, in whatever order the class, its nested types and S
\* were found.
C19_SuperClassBound ==
    SuccessfulScan =>
        \A S \in Catalog("UDT") :
            (Declared(1, "UDT", S.name) \/ Declared(2, "UDT", S.name))
            /\ S.name \in DOMAIN typeMap
            => \A b \in BaseClassNames(S) :
                 LET c == typeMap[S.name] IN
                 /\ nodes[c].kind = "Class"
                 /\ nodes[c].superClass # NULL
                 /\ GetFullName(nodes, nodes[c].superClass) = b

\* C20: when createTypedef copies the size of the aliased type into a new
\* typedef, the typedef's _aliasedType is bound to a node, also when the
\* class or enum it names is not registered yet: no typedef was built with
\* its size read through a NULL _aliasedType.
C20_TypedefSizeThroughBoundSlot ==
    \A t \in Live : nodes[t].kind = "Typedef" => nodes[t].aliasedType # NULL

\* Some file's UDT pass dispatched a declaration of this name.
DeclaredClass(name) == \E f \in 1..MaxFiles : Declared(f, "UDT", name)

\* C21: after a successful scan, the registered class node of every declared
\* class has the size of its declaration, whether the node was made from the
\* declaration or was first made as the container of a nested type's name.
C21_DeclaredSizeKept ==
    SuccessfulScan =>
        \A S \in Catalog("UDT") :
            (DeclaredClass(S.name) /\ S.name \in DOMAIN typeMap
                /\ nodes[typeMap[S.name]].kind = "Class")
            => nodes[typeMap[S.name]].sizeOf = S.size

\* C22: the root list holds only types with no owner and holds no node
\* twice: a node of the root list that gains an owner, in getNamespaceFromName
\* or in the merge branch of createClassUDT or createEnumUDT, leaves the root
\* list in the step that appends it to its owner's child list.
C22_RootsHaveNoOwner ==
    /\ \A i \in 1..Len(types) :
         nodes[types[i]].kind # "Base" => nodes[types[i]].owner = NULL
    /\ \A i, j \in 1..Len(types) : types[i] = types[j] => i = j

\* The member names addEnumMembers appends for an enum symbol: those of its
\* children, in order, up to the first child whose name cannot be read.
Delivered(S) ==
    LET bad == { i \in 1..Len(S.children) : S.children[i].fail = "name" }
        n == IF bad = {} THEN Len(S.children)
             ELSE (CHOOSE i \in bad : \A j \in bad : i <= j) - 1
    IN [ i \in 1..n |-> S.children[i].name ]

\* The enum symbols dispatched so far under a full name: at global scope, or
\* as a child of a dispatched class.
DeclaredEnums(fullName) ==
    { S \in Catalog("Enum") :
        S.name = fullName /\ \E f \in 1..MaxFiles : Declared(f, "Enum", S.name) }
    \cup UNION { { C.children[k] :
                    k \in { k \in 1..Len(C.children) :
                              /\ C.children[k].tag = "Enum"
                              /\ C.name \o C.children[k].name = fullName } } :
                C \in { C \in Catalog("UDT") : DeclaredClass(C.name) } }

EnumNodes == { e \in Live : nodes[e].kind = "Enum" }

\* C23: however often an enum is declared, the member list of its node is, in
\* order, the members of one single declaration, the first that gave it a
\* member: a first sighting appends one member per child, a merge appends
\* only to an empty list, and the members of two declarations are never
\* concatenated (a list that is not empty does not change any more).
C23_EnumMembersOfOneDeclaration ==
    [][ /\ \A e \in EnumNodes' :
             \/ nodes'[e].enumMembers = <<>>
             \/ \E S \in DeclaredEnums(GetFullName(nodes, e))' :
                  nodes'[e].enumMembers = Delivered(S)
        /\ \A e \in EnumNodes :
             nodes[e].enumMembers # <<>> =>
                 nodes'[e].enumMembers = nodes[e].enumMembers
      ]_vars

\* E declared three times, first without members, then with A and B, then
\* with C: the registered node has A and B.
C23_Witness ==
    /\ pc = "done" /\ rc = DDR_RC_OK
    /\ Len(hist.seen) = 3
    /\ \A i \in 1..3 : hist.seen[i].name = <<"E">>
    /\ Declared(1, "Enum", <<"E">>) /\ Declared(2, "Enum", <<"E">>)
    /\ <<"E">> \in DOMAIN typeMap
    /\ nodes[typeMap[<<"E">>]].kind = "Enum"
    /\ nodes[typeMap[<<"E">>]].enumMembers = << <<"A">>, <<"B">> >>
    /\ hist.flushRuns = 1

\* C24: after a successful scan every field in a class's field list and every
\* registered typedef has a type that is not NULL: a slot for which setType
\* returned DDR_RC_OK was bound at once or has an entry on _postponedFields,
\* which the flush binds.
C24_NoNullTypeReference ==
    SuccessfulScan =>
        /\ \A c \in Live : \A i \in FieldsOf(c) :
             nodes[c].fieldMembers[i].fieldType # NULL
        /\ \A t \in Registered \cap Live :
             nodes[t].kind = "Typedef" => nodes[t].aliasedType # NULL

\* The fields whose type symbol has the anonymous tag as its name.
AnonymousFields ==
    { <<o, i>> \in UNION { { <<c, k>> : k \in FieldsOf(c) } : c \in Live } :
        nodes[o].fieldMembers[i].typeName = <<UnnamedTag>> }

\* C25: a field of class O whose type has the anonymous tag is bound to a
\* class node of its own, made for it: a child of O, owned by O, with the
\* empty name; two such fields are bound to different nodes; and no entry of
\* _postponedFields is recorded for them.
C25_AnonymousFieldOwnNode ==
    /\ \A f \in AnonymousFields :
         LET t == nodes[f[1]].fieldMembers[f[2]].fieldType IN
         /\ t # NULL
         /\ nodes[t].kind = "Class"
         /\ nodes[t].owner = f[1]
         /\ t \in ChildrenOf(f[1])
         /\ nodes[t].name = <<>>
         /\ ~IsPostponedSlot(Heap, Slot(f[1], "field", f[2]))
    /\ \A f, g \in AnonymousFields :
         f # g => nodes[f[1]].fieldMembers[f[2]].fieldType
                    # nodes[g[1]].fieldMembers[g[2]].fieldType

\* A class or enum child whose name holds the separator "::".
IsDecorated(child) == child.tag \in {"UDT", "Enum"} /\ HasSeparator(child.name)

\* The children of S in the order one enumeration of them for owner O hands
\* them to addSymbol, each with the owner it is handed with.
DispatchesOf(S, O) ==
    SelectSeq(AddChildrenSymbols([ Heap EXCEPT !.g.ub = FALSE ], S.children, FALSE, O)
                .h.g.dispatch,
              LAMBDA d : \E k \in 1..Len(S.children) : S.children[k] = d.sym)

ClassNodes == { c \in Live : nodes[c].kind = "Class" }

\* One enumeration of the children of S for owner O: decorated children go
\* to addSymbol with no owner and after every undecorated one, undecorated
\* children with owner O, no child twice, and when the enumeration succeeds
\* every decorated child was handed on.
TwoPasses(S, O) ==
    LET log == DispatchesOf(S, O)
        result == AddChildrenSymbols([ Heap EXCEPT !.g.ub = FALSE ], S.children,
                                     FALSE, O).rc
    IN /\ \A k \in 1..Len(log) :
            log[k].owner = IF IsDecorated(log[k].sym) THEN NULL ELSE O
       /\ \A k, l \in 1..Len(log) :
            (IsDecorated(log[k].sym) /\ ~IsDecorated(log[l].sym)) => l < k
       /\ \A k, l \in 1..Len(log) : log[k].sym = log[l].sym => k = l
       /\ result = DDR_RC_OK =>
            \A i \in 1..Len(S.children) :
                IsDecorated(S.children[i]) => \E k \in 1..Len(log) : log[k].sym = S.children[i]

\* C26: in one enumeration of children for an owner O that is not NULL, a
\* class or enum child with a decorated name is buffered and handed to
\* addSymbol only after all undecorated children were handled, and with no
\* owner; an undecorated child is handed on with owner O; and no child is
\* handed on more than once.
C26_DecoratedChildrenLast ==
    \A S \in { S \in Catalog("UDT") : S.children # <<>> } :
        \A O \in ClassNodes : TwoPasses(S, O)

\* After Mix was scanned: an enumeration of Mix's children on a class with
\* no field and no nested type hands on all five, the two decorated ones
\* last.
C26_Witness ==
    /\ pc = "done" /\ DeclaredClass(<<"Mix">>)
    /\ \E O \in ClassNodes :
         LET log == DispatchesOf(ClassMix, O) IN
         /\ Len(log) = 5
         /\ log[4].sym = ClassMixFirst /\ log[5].sym = EnumMixTone
         /\ log[1].owner = O /\ log[5].owner = NULL

\* The typedef symbols createTypedef must skip: a blacklisted name of their
\* own, or a blacklisted class or enum behind pointers and arrays.
BlacklistedTypedefs ==
    { T \in Catalog("Typedef") :
        \/ T.name \in Blacklist
        \/ T.typ.k \in {"udt", "enum"} /\ T.typ.n \in Blacklist }

\* C27: createTypedef of a typedef whose own name is blacklisted, or whose
\* target behind pointers and arrays is a class or enum with a blacklisted
\* name, returns DDR_RC_OK and changes nothing: the registry, the root list,
\* every child list and the postponed references are as before.
C27_BlacklistedTypedefNoOp ==
    pc # "start" =>
        \A T \in BlacklistedTypedefs : \A O \in {NULL} \cup ClassNodes :
            LET r == CreateTypedef(Heap, T, O) IN
            /\ r.rc = DDR_RC_OK
            /\ r.h.typeMap = typeMap
            /\ r.h.types = types
            /\ r.h.nodes = nodes
            /\ r.h.postponed = postponed

\* Both blacklisted typedefs were dispatched in a successful scan next to a
\* class that was registered; no typedef was built.
C27_Witness ==
    /\ SuccessfulScan
    /\ \E f \in 1..MaxFiles : Declared(f, "Typedef", <<"HiddenT">>)
    /\ \E f \in 1..MaxFiles : Declared(f, "Typedef", <<"Hidden">>)
    /\ \E f \in 1..MaxFiles : Declared(f, "UDT", <<"User">>)
    /\ <<"User">> \in DOMAIN typeMap
    /\ <<"HiddenT">> \notin DOMAIN typeMap
    /\ \A i \in Live : nodes[i].kind # "Typedef"

\* Base-class symbols: of a class some file declares, of one no file
\* declares, with the empty name, and with a name that cannot be read.
BaseClassSymbols ==
    { BaseClass(<<"Bar">>), BaseClass(<<"Base">>), BaseClass(<<>>),
      Sym("BaseClass", <<"Bar">>, 0, NoTyp, <<>>, "name") }

\* C28: setSuperClassName returns DDR_RC_OK for every base-class symbol, also
\* one whose name cannot be read; a non-empty registered name is bound to the
\* class's superclass at once, a non-empty name that is not registered adds
\* exactly one entry to _postponedFields, and otherwise nothing changes.
C28_SuperClassNeverFails ==
    pc # "start" =>
        \A b \in BaseClassSymbols : \A c \in ClassNodes :
            LET r == SetSuperClassName(Heap, b, c) IN
            /\ r.rc = DDR_RC_OK
            /\ r.h.typeMap = typeMap
            /\ r.h.types = types
            /\ IF b.fail = "name" \/ b.name = <<>>
               THEN r.h.nodes = nodes /\ r.h.postponed = postponed
               ELSE IF b.name \in DOMAIN typeMap
               THEN /\ r.h.nodes = [ nodes EXCEPT ![c].superClass = typeMap[b.name] ]
                    /\ r.h.postponed = postponed
               ELSE /\ r.h.nodes = nodes
                    /\ r.h.postponed =
                         Append(postponed, [ type |-> Slot(c, "super", 0),
                                             name |-> b.name ])

\* A successful scan that met class A before Bar and again after it: the
\* base of A was postponed at the first sighting and bound at once at the
\* second.
C28_Witness ==
    /\ SuccessfulScan
    /\ <<"Bar">> \in DOMAIN typeMap
    /\ hist.earlyWrite
    /\ \E a \in ClassNodes :
         /\ nodes[a].name = <<"A">>
         /\ nodes[a].superClass = typeMap[<<"Bar">>]
         /\ IsPostponedSlot(Heap, Slot(a, "super", 0))
====
